---- MODULE Spec2Model ----
(***************************************************************************)
(* A model of webgrab's extraction engine (grab.go): tag parsing, the      *)
(* regex helpers, scalar and slice scraping and the recursive struct walk. *)
(*                                                                         *)
(* Go strings that the code splits, trims or matches are sequences of      *)
(* one-character strings.  Regular expressions are named by their source   *)
(* text and given meaning by RegexShape, a small leftmost/greedy matcher   *)
(* for patterns made of an optional wildcard (grouped or not), a literal  *)
(* and an optional end anchor.                                             *)
(***************************************************************************)
EXTENDS Integers, Sequences, FiniteSets, TLC

VARIABLES doc, typ, rec, pre, stack, status, cleanArg, cleanRet

vars == <<doc, typ, rec, pre, stack, status, cleanArg, cleanRet>>

(***************************************************************************)
(* Bounds                                                                  *)
(***************************************************************************)
\* nodes in a document walked by a one-field record
MaxNodes == 2
\* nodes in a document walked by a nested record
MaxWalkNodes == 1
\* length of the raw strings handed to clean
MaxLen == 3

SeqsUpTo(S, n) == UNION {[1..k -> S] : k \in 0..n}

(***************************************************************************)
(* Documents: an ordered list of nodes (document order), each with an      *)
(* element name, a text and an optional "h" attribute.                     *)
(***************************************************************************)
Absent == "absent"
AttrH == <<"h">>
Names == {<<"a">>, <<"p">>}
Texts == {<<"x", " ", "s">>, <<" ", "x">>}
AttrValues == {Absent, <<"s">>}
Nodes == [name : Names, text : Texts, attr : AttrValues]

(***************************************************************************)
(* strings.Split and strings.TrimSpace                                     *)
(***************************************************************************)
RECURSIVE SplitFrom(_, _, _)
SplitFrom(s, sep, cur) ==
    IF s = <<>> THEN <<cur>>
    ELSE IF Head(s) = sep THEN <<cur>> \o SplitFrom(Tail(s), sep, <<>>)
    ELSE SplitFrom(Tail(s), sep, Append(cur, Head(s)))

Split(s, sep) == SplitFrom(s, sep, <<>>)

IsSpace(c) == c = " "

TrimSpace(s) ==
    LET keep == {i \in 1..Len(s) : ~IsSpace(s[i])} IN
    IF keep = {} THEN <<>>
    ELSE LET lo == CHOOSE i \in keep : \A j \in keep : i <= j
             hi == CHOOSE i \in keep : \A j \in keep : j <= i
         IN SubSeq(s, lo, hi)

(***************************************************************************)
(* regexp: MustCompile, MatchString, FindStringSubmatch                    *)
(***************************************************************************)
RegexShape(re) ==
    CASE re = "(.+)s" -> [ok |-> TRUE, wild |-> "plus", group |-> TRUE,
                          lit |-> <<"s">>, end |-> FALSE]
      [] re = "(.*)s" -> [ok |-> TRUE, wild |-> "star", group |-> TRUE,
                          lit |-> <<"s">>, end |-> FALSE]
      [] re = ".*s$"  -> [ok |-> TRUE, wild |-> "star", group |-> FALSE,
                          lit |-> <<"s">>, end |-> TRUE]
      [] re = "s"     -> [ok |-> TRUE, wild |-> "none", group |-> FALSE,
                          lit |-> <<"s">>, end |-> FALSE]
      [] re = " "     -> [ok |-> TRUE, wild |-> "none", group |-> FALSE,
                          lit |-> <<" ">>, end |-> FALSE]
      [] OTHER        -> [ok |-> FALSE, wild |-> "none", group |-> FALSE,
                          lit |-> <<>>, end |-> FALSE]

\* regexp.MustCompile panics exactly when the pattern does not compile
Compiles(re) == RegexShape(re).ok

\* <<i, k>>: a match starting at i whose wildcard consumes k characters
ShapeMatches(sh, str) ==
    {ik \in (1..(Len(str) + 1)) \X (0..Len(str)) :
        /\ CASE sh.wild = "none" -> ik[2] = 0
             [] sh.wild = "plus" -> ik[2] >= 1
             [] OTHER            -> TRUE
        /\ ik[1] + ik[2] + Len(sh.lit) - 1 <= Len(str)
        /\ SubSeq(str, ik[1] + ik[2], ik[1] + ik[2] + Len(sh.lit) - 1) = sh.lit
        /\ sh.end => ik[1] + ik[2] + Len(sh.lit) - 1 = Len(str)}

RegexMatches(re, str) == ShapeMatches(RegexShape(re), str)

MatchString(re, str) == RegexMatches(re, str) # {}

Min(S) == CHOOSE a \in S : \A b \in S : a <= b
Max(S) == CHOOSE a \in S : \A b \in S : b <= a

\* the leftmost start of a match, and the greedy wildcard length from there
Leftmost(ms) == Min({ik[1] : ik \in ms})
Greedy(ms, i) == Max({ik[2] : ik \in {x \in ms : x[1] = i}})

\* the whole match, followed by the capture group when the pattern has one
Groups(sh, str, i, k) ==
    IF sh.group
    THEN <<SubSeq(str, i, i + k + Len(sh.lit) - 1), SubSeq(str, i, i + k - 1)>>
    ELSE <<SubSeq(str, i, i + k + Len(sh.lit) - 1)>>

Submatch(sh, ms, str) ==
    IF ms = {} THEN <<>>
    ELSE Groups(sh, str, Leftmost(ms), Greedy(ms, Leftmost(ms)))

\* leftmost start, then the greedy wildcard; <<>> when nothing matches
FindStringSubmatch(re, str) ==
    Submatch(RegexShape(re), RegexMatches(re, str), str)

(***************************************************************************)
(* Field annotations and grabTag                                           *)
(*                                                                         *)
(* A record type is a sequence of fields in declaration order.  A field    *)
(* carries its kind (reflect.Kind), its struct-tag annotations and, for a  *)
(* struct field, the fields of the nested record.                          *)
(***************************************************************************)
LeafField(kind, grab, attr, ext, flt) ==
    [kind |-> kind, grab |-> grab, attr |-> attr, extract |-> ext,
     filter |-> flt, sub |-> <<>>]

StructField(sub) ==
    [kind |-> "struct", grab |-> <<>>, attr |-> <<>>, extract |-> "",
     filter |-> "", sub |-> sub]

parseTag(tag) ==
    LET parts == Split(tag, ",") IN
    [Selector  |-> parts[1],
     Attribute |-> IF Len(parts) > 1 THEN parts[2] ELSE <<>>]

\* only the grab, extract and filter annotations are read
parseStruct(fields) ==
    [i \in 1..Len(fields) |->
        LET tag == parseTag(fields[i].grab) IN
        [Field     |-> i,
         Kind      |-> fields[i].kind,
         Selector  |-> tag.Selector,
         Attribute |-> tag.Attribute,
         Extract   |-> fields[i].extract,
         Filter    |-> fields[i].filter]]

(***************************************************************************)
(* goquery: Find, Text, AttrOr                                             *)
(***************************************************************************)
\* variant: the empty selector selects every node
FindAllOnEmpty(d, selector) ==
    IF selector = <<>> THEN d
    ELSE SelectSeq(d, LAMBDA n : n.name = selector)

\* an empty selector does not compile and matches nothing
Find(d, selector) ==
    IF selector = <<>> THEN <<>>
    ELSE SelectSeq(d, LAMBDA n : n.name = selector)

Text(n) == n.text

AttrOr(n, name, default) ==
    IF name = AttrH /\ n.attr # Absent THEN n.attr ELSE default

(***************************************************************************)
(* Grabber.filter, extract, clean, scrape, scrapeSlice                     *)
(* A call either panics or returns; a returning scrape carries err.        *)
(***************************************************************************)
NoMatch == <<"(", "n", "o", " ", "m", "a", "t", "c", "h", ")">>

Panicked == [panic |-> TRUE, err |-> FALSE, v |-> <<>>]
Failed == [panic |-> FALSE, err |-> TRUE, v |-> <<>>]
Returned(v) == [panic |-> FALSE, err |-> FALSE, v |-> v]

\* regexp.MustCompile in filter and extract panics on an invalid pattern
MustCompilePanics(regex) == ~Compiles(regex)

\* the value filter returns when it returns
filter(str, regex) == MatchString(regex, str)

\* extract after FindStringSubmatch: the sentinel, or match[1]
FirstGroup(match) ==
    IF Len(match) = 0 THEN Returned(NoMatch)
    ELSE IF Len(match) < 2 THEN Panicked  \* match[1]: index out of range
    ELSE Returned(match[2])

\* variant: an empty string instead of the sentinel when nothing matches
extractEmptyOnNoMatch(str, regex) ==
    IF MustCompilePanics(regex) THEN Panicked
    ELSE IF ~MatchString(regex, str) THEN Returned(<<>>)
    ELSE FirstGroup(FindStringSubmatch(regex, str))

extract(str, regex) ==
    IF MustCompilePanics(regex) THEN Panicked
    ELSE FirstGroup(FindStringSubmatch(regex, str))

\* strings.TrimSpace of what extract returned
TrimResult(e) == IF e.panic THEN Panicked ELSE Returned(TrimSpace(e.v))

clean(str, tag) ==
    IF tag.Extract # "" THEN TrimResult(extract(str, tag.Extract))
    ELSE Returned(TrimSpace(str))

\* the raw value of a node: its text, or the named attribute ("" if absent)
NodeValue(n, tag) ==
    IF tag.Attribute = <<>> THEN Text(n) ELSE AttrOr(n, tag.Attribute, <<>>)

\* scrape once the selection is reduced to its first node
scrapeFirst(first, tag) ==
    IF tag.Filter # "" /\ MustCompilePanics(tag.Filter) THEN Panicked
    ELSE IF tag.Filter # "" /\ ~filter(Text(first), tag.Filter) THEN Failed
    ELSE clean(NodeValue(first, tag), tag)

scrape(d, tag) ==
    IF Len(Find(d, tag.Selector)) = 0 THEN Failed
    ELSE scrapeFirst(Find(d, tag.Selector)[1], tag)

RECURSIVE Each(_, _, _)

\* strs = append(strs, g.clean(...)), then the next node
EachAppend(sel, tag, strs, c) ==
    IF c.panic THEN Panicked
    ELSE Each(Tail(sel), tag, Append(strs, c.v))

\* variant: the filter is tested against the node text even when an
\* attribute is configured
EachFilterOnText(sel, tag, strs) ==
    IF sel = <<>> THEN Returned(strs)
    ELSE IF tag.Filter # "" /\ MustCompilePanics(tag.Filter) THEN Panicked
    ELSE IF tag.Filter # "" /\ ~filter(Text(Head(sel)), tag.Filter)
    THEN Each(Tail(sel), tag, strs)
    ELSE EachAppend(sel, tag, strs, clean(NodeValue(Head(sel), tag), tag))

\* sel.Each: the callback on the nodes of sel in order
Each(sel, tag, strs) ==
    IF sel = <<>> THEN Returned(strs)
    ELSE IF tag.Filter # "" /\ MustCompilePanics(tag.Filter) THEN Panicked
    ELSE IF tag.Filter # "" /\ ~filter(NodeValue(Head(sel), tag), tag.Filter)
    THEN Each(Tail(sel), tag, strs)
    ELSE EachAppend(sel, tag, strs, clean(NodeValue(Head(sel), tag), tag))

\* variant: no match is an empty result, not an error
scrapeSliceEmptyOk(d, tag) == Each(Find(d, tag.Selector), tag, <<>>)

Reverse(s) == [i \in 1..Len(s) |-> s[Len(s) + 1 - i]]

\* variant: the result is built back to front
scrapeSliceReversed(d, tag) ==
    IF Len(Find(d, tag.Selector)) = 0 THEN Failed
    ELSE Each(Reverse(Find(d, tag.Selector)), tag, <<>>)

scrapeSlice(d, tag) ==
    IF Len(Find(d, tag.Selector)) = 0 THEN Failed
    ELSE Each(Find(d, tag.Selector), tag, <<>>)

(***************************************************************************)
(* Destination records                                                     *)
(***************************************************************************)
RECURSIVE StructAt(_, _)
StructAt(t, path) ==
    IF path = <<>> THEN t ELSE StructAt(t[Head(path)].sub, Tail(path))

RECURSIVE LeafPaths(_)
LeafPaths(t) ==
    UNION {IF t[i].kind = "struct"
           THEN {<<i>> \o p : p \in LeafPaths(t[i].sub)}
           ELSE {<<i>>} : i \in 1..Len(t)}

FieldAt(t, path) ==
    StructAt(t, SubSeq(path, 1, Len(path) - 1))[path[Len(path)]]

\* the tag parseStruct derives for the leaf field at a path
TagAt(t, path) ==
    parseStruct(StructAt(t, SubSeq(path, 1, Len(path) - 1)))[path[Len(path)]]

Old == <<"o">>

\* values a field may hold before the walk: its zero value or an earlier one
PreValues(kind) ==
    CASE kind = "string" -> {<<>>, Old}
      [] kind = "slice"  -> {<<>>, <<Old>>}
      [] OTHER           -> {<<>>}

Grabs == {<<>>, <<"a">>, <<"p">>, <<"a", ",", "h">>, <<"p", ",", "h">>}
Extracts == {"", "(.+)s", "s", "("}
Filters == {"", ".*s$", " ", "("}

\* records of one string or slice field, every annotation
FieldTypes ==
    {<<LeafField(k, g, <<>>, e, f)>> :
        k \in {"string", "slice"}, g \in Grabs, e \in Extracts, f \in Filters}

\* leaf fields of the nested records
LeafPool ==
    {LeafField("string", <<"a", ",", "h">>, <<>>, "", ""),
     LeafField("string", <<"a">>, AttrH, "", ""),
     LeafField("string", <<"a">>, <<>>, "", ".*s$"),
     LeafField("slice", <<"p">>, <<>>, "", ""),
     LeafField("string", <<>>, <<>>, "", ""),
     LeafField("slice", <<>>, <<>>, "", ""),
     LeafField("int", <<>>, <<>>, "", "")}

\* Page { N struct { B; M struct { C } }; D }  and  Page { A; D }
NestedTypes ==
    {<<StructField(<<b, StructField(<<c>>)>>), d>> :
        b \in LeafPool, c \in LeafPool, d \in LeafPool}
    \cup {<<a, d>> : a \in LeafPool, d \in LeafPool}

(***************************************************************************)
(* Grabber.scrapeStruct, one loop iteration per step.  A frame is one       *)
(* activation: the record it walks, the next field and its doc argument.   *)
(***************************************************************************)
Cur == stack[Len(stack)]
CurTags == parseStruct(StructAt(typ, Cur.path))
CurTag == CurTags[Cur.i]
CurPath == Cur.path \o <<Cur.i>>

Advance(stk) == [stk EXCEPT ![Len(stk)].i = @ + 1]

\* variant: the recursive call gets the nodes the struct field's own
\* selector matches
NestedDocScoped(d, tag) == Find(d, tag.Selector)

\* the document handed to the recursive call
NestedDoc(d, tag) == d

\* variant: a failed scrape returns from the activation
AfterErrorAbort(stk) == SubSeq(stk, 1, Len(stk) - 1)

\* `continue` after a failed scrape
AfterError(stk) == Advance(stk)

\* reflect.MakeSlice and SetString of every element
MakeSlice(strs) == [i \in 1..Len(strs) |-> strs[i]]

\* scrapeStruct's return value, and what Grab makes of it
scrapeStructReturn == "nil"
GrabResult(err) == IF err # "nil" THEN "error" ELSE "ok"

StatusOf(stk) ==
    IF stk = <<>> THEN GrabResult(scrapeStructReturn) ELSE "running"

AtField ==
    /\ status = "running"
    /\ stack # <<>>
    /\ Cur.i <= Len(CurTags)

ScrapeNested ==
    /\ AtField
    /\ CurTag.Kind = "struct"
    /\ stack' = Append(Advance(stack),
                       [path |-> CurPath, i |-> 1,
                        doc |-> NestedDoc(Cur.doc, CurTag)])
    /\ UNCHANGED <<doc, typ, rec, pre, status, cleanArg, cleanRet>>

\* what the loop body does with the result of scrapeSlice or scrape
FieldStep(r, value) ==
    IF r.panic
    THEN /\ status' = "panic"
         /\ stack' = <<>>
         /\ rec' = rec
    ELSE IF r.err
    THEN /\ stack' = AfterError(stack)
         /\ status' = StatusOf(stack')
         /\ rec' = rec
    ELSE /\ rec' = [rec EXCEPT ![CurPath] = value]
         /\ stack' = Advance(stack)
         /\ status' = status

ScrapeSliceField ==
    /\ AtField
    /\ CurTag.Kind = "slice"
    /\ FieldStep(scrapeSlice(Cur.doc, CurTag),
                 MakeSlice(scrapeSlice(Cur.doc, CurTag).v))
    /\ UNCHANGED <<doc, typ, pre, cleanArg, cleanRet>>

ScrapeStringField ==
    /\ AtField
    /\ CurTag.Kind = "string"
    /\ FieldStep(scrape(Cur.doc, CurTag), scrape(Cur.doc, CurTag).v)
    /\ UNCHANGED <<doc, typ, pre, cleanArg, cleanRet>>

\* a field that is no struct, slice or string falls through the loop body
SkipField ==
    /\ AtField
    /\ CurTag.Kind \notin {"struct", "slice", "string"}
    /\ stack' = Advance(stack)
    /\ UNCHANGED <<doc, typ, rec, pre, status, cleanArg, cleanRet>>

Return ==
    /\ status = "running"
    /\ stack # <<>>
    /\ Cur.i > Len(CurTags)
    /\ stack' = SubSeq(stack, 1, Len(stack) - 1)
    /\ status' = StatusOf(stack')
    /\ UNCHANGED <<doc, typ, rec, pre, cleanArg, cleanRet>>

NoCall == [str |-> <<>>, extract |-> ""]

Init ==
    /\ \/ typ \in FieldTypes /\ doc \in SeqsUpTo(Nodes, MaxNodes)
          /\ pre \in [LeafPaths(typ) -> PreValues(typ[1].kind)]
       \/ typ \in NestedTypes /\ doc \in SeqsUpTo(Nodes, MaxWalkNodes)
          /\ pre = [p \in LeafPaths(typ) |->
                      IF FieldAt(typ, p).kind = "string" THEN Old
                      ELSE IF FieldAt(typ, p).kind = "slice" THEN <<Old>>
                      ELSE <<>>]
    /\ rec = pre
    /\ stack = <<[path |-> <<>>, i |-> 1, doc |-> doc]>>
    /\ status = "running"
    /\ cleanArg = NoCall
    /\ cleanRet = Returned(<<>>)

Next ==
    \/ ScrapeNested
    \/ ScrapeSliceField
    \/ ScrapeStringField
    \/ SkipField
    \/ Return

Spec == Init /\ [][Next]_vars

(***************************************************************************)
(* clean on its own: every raw string up to MaxLen, every extract pattern  *)
(***************************************************************************)
Alphabet == {"x", "s", " "}
CleanExtracts == Extracts \cup {"(.*)s"}

InitClean ==
    /\ cleanArg \in [str : SeqsUpTo(Alphabet, MaxLen), extract : CleanExtracts]
    /\ cleanRet = Returned(<<>>)
    /\ status = "call"
    /\ doc = <<>>
    /\ typ = <<>>
    /\ pre = <<>>
    /\ rec = <<>>
    /\ stack = <<>>

Clean ==
    /\ status = "call"
    /\ cleanRet' = clean(cleanArg.str, [Extract |-> cleanArg.extract])
    /\ status' = IF cleanRet'.panic THEN "panic" ELSE "returned"
    /\ UNCHANGED <<doc, typ, rec, pre, stack, cleanArg>>

NextClean == Clean

SpecClean == InitClean /\ [][NextClean]_vars

(***************************************************************************)
(* Properties                                                              *)
(***************************************************************************)
Leaves == LeafPaths(typ)
KindAt(p) == FieldAt(typ, p).kind
Selection(p) == Find(doc, TagAt(typ, p).Selector)
Candidates(p) ==
    [i \in 1..Len(Selection(p)) |-> NodeValue(Selection(p)[i], TagAt(typ, p))]

\* the k-th smallest member of a set of indices
Nth(S, k) == CHOOSE i \in S : Cardinality({j \in S : j <= i}) = k

\* sequence fields with a non-empty selector that matches no node
SliceMisses ==
    {p \in Leaves : /\ KindAt(p) = "slice"
                    /\ TagAt(typ, p).Selector # <<>>
                    /\ Len(Selection(p)) = 0}

\* C1 as stated: a sequence field whose non-empty selector matches zero
\* nodes is written as the empty sequence and the walk does not fail.
C1_SliceMissWritesEmpty ==
    status # "running" =>
        \A p \in SliceMisses : status = "ok" /\ rec[p] = <<>>

\* C1 as amended: a sequence field whose non-empty selector matches zero
\* nodes is not written, it keeps the value it held before the walk, and
\* the miss does not fail the walk.
C1_SliceMissKeepsField ==
    \A p \in SliceMisses : status \in {"running", "ok"} /\ rec[p] = pre[p]

C1_Witness ==
    /\ status = "ok"
    /\ \E p \in SliceMisses : pre[p] = <<Old>> /\ rec[p] = <<Old>>

\* the selector and attribute a field's annotations denote: the attribute is
\* the attr annotation when there is one, else the part of grab after the comma
Denoted(f) ==
    IF f.attr # <<>> THEN <<f.grab, f.attr>>
    ELSE <<parseTag(f.grab).Selector, parseTag(f.grab).Attribute>>

\* C2: the combined annotation grab:"selector,attribute" and the separate
\* annotations grab:"selector" attr:"attribute" give the same tag spec: in
\* either form the tag carries the attribute and the field receives the
\* attribute's value of the first matched node, not its text.
C2_EncodingsAgree ==
    status = "ok" =>
        \A p \in Leaves :
            LET f == FieldAt(typ, p)
                sel == Find(doc, Denoted(f)[1])
            IN (/\ f.kind = "string"
                /\ Denoted(f)[2] # <<>>
                /\ f.extract = "" /\ f.filter = ""
                /\ Len(sel) > 0)
               => /\ TagAt(typ, p).Selector = Denoted(f)[1]
                  /\ TagAt(typ, p).Attribute = Denoted(f)[2]
                  /\ rec[p] = TrimSpace(AttrOr(sel[1], Denoted(f)[2], <<>>))

\* scalar fields with a filter whose selector matches at least one node
FilteredScalars ==
    {p \in Leaves : /\ KindAt(p) = "string"
                    /\ TagAt(typ, p).Filter # ""
                    /\ Len(Selection(p)) > 0}

\* C3: a scalar field's filter is tested against the candidate value of the
\* first matched node (the attribute's value when an attribute is configured,
\* else the text); the field is written exactly when the candidate matches.
C3_FilterOnCandidate ==
    status = "ok" =>
        \A p \in FilteredScalars :
            IF MatchString(TagAt(typ, p).Filter, Candidates(p)[1])
            THEN rec[p] = clean(Candidates(p)[1], TagAt(typ, p)).v
            ELSE rec[p] = pre[p]

\* sequence fields whose selector matches at least one node
SliceHits ==
    {p \in Leaves : KindAt(p) = "slice" /\ Len(Selection(p)) > 0}

\* indices of the matched nodes whose raw value passes the field's filter
KeptIdx(p) ==
    {i \in 1..Len(Selection(p)) :
        \/ TagAt(typ, p).Filter = ""
        \/ MatchString(TagAt(typ, p).Filter, Candidates(p)[i])}

\* C4: a sequence field holds one element per matched node whose raw value
\* (text, or the named attribute, empty when absent) matches the filter, in
\* match order, duplicates kept; each element is that node's value after
\* extract and trim.
C4_SliceInMatchOrder ==
    status = "ok" =>
        \A p \in SliceHits :
            /\ Len(rec[p]) = Cardinality(KeptIdx(p))
            /\ \A k \in 1..Len(rec[p]) :
                 rec[p][k] =
                    clean(Candidates(p)[Nth(KeptIdx(p), k)], TagAt(typ, p)).v

C4_Witness ==
    /\ status = "ok"
    /\ \E p \in SliceHits :
          /\ TagAt(typ, p).Filter # ""
          /\ TagAt(typ, p).Attribute # <<>>
          /\ Len(Selection(p)) = 2
          /\ KeptIdx(p) = {2}
          /\ rec[p] = <<Candidates(p)[2]>>

\* scalar fields that fail: selector miss, or the filter rejecting the value
ScalarFailures ==
    {p \in Leaves : /\ KindAt(p) = "string"
                    /\ TagAt(typ, p).Selector # <<>>
                    /\ \/ Len(Selection(p)) = 0
                       \/ /\ TagAt(typ, p).Filter # ""
                          /\ Compiles(TagAt(typ, p).Filter)
                          /\ ~MatchString(TagAt(typ, p).Filter,
                                          Text(Selection(p)[1]))}

\* C5: the walk returns an error whenever a field of the record or of a
\* nested record fails, and success only when none does.
C5_FailureReported ==
    status \in {"ok", "error"} =>
        (status = "error" <=> ScalarFailures # {})

\* extract patterns that compile and have a capturing group
GroupPatterns == {e \in CleanExtracts : Compiles(e) /\ RegexShape(e).group}

\* where the literal after the group occurs: a plus group needs one
\* character before it, a star group none
Occurrences(str, sh) ==
    {j \in (IF sh.wild = "plus" THEN 2 ELSE 1)..Len(str) :
        /\ j + Len(sh.lit) - 1 <= Len(str)
        /\ SubSeq(str, j, j + Len(sh.lit) - 1) = sh.lit}

\* the first capture group of a grouped wildcard followed by lit: everything
\* before the last occurrence of lit, or the sentinel when lit does not occur
GroupOrSentinel(str, sh) ==
    IF Occurrences(str, sh) = {} THEN NoMatch
    ELSE SubSeq(str, 1, Max(Occurrences(str, sh)) - 1)

Trimmed(s) == s = <<>> \/ (~IsSpace(s[1]) /\ ~IsSpace(s[Len(s)]))

CleanExpected ==
    /\ status = "returned"
    /\ cleanRet.v = TrimSpace(GroupOrSentinel(cleanArg.str,
                                   RegexShape(cleanArg.extract)))
    /\ Trimmed(cleanRet.v)

Unannotated == {p \in Leaves : TagAt(typ, p).Selector = <<>>}

\* C7: a field with an empty selector is never written and raises no error;
\* a record with no annotated field, at any depth, is walked successfully
\* and left unchanged.
C7_UnannotatedUntouched ==
    /\ \A p \in Unannotated : rec[p] = pre[p]
    /\ Unannotated = Leaves => (status \in {"running", "ok"} /\ rec = pre)

C7_Witness ==
    /\ status = "ok"
    /\ doc # <<>>
    /\ Unannotated = Leaves
    /\ \E p, q \in Leaves :
          /\ Len(p) = 3 /\ KindAt(p) = "string"
          /\ KindAt(q) = "slice"

\* C8: an annotated field of a nested record receives the value the same
\* annotation receives as a top-level field walked over the same document.
C8_NestedUsesWholeDocument ==
    status = "ok" =>
        \A p, q \in Leaves :
            (/\ Len(p) = 1 /\ Len(q) > 1
             /\ FieldAt(typ, p) = FieldAt(typ, q)
             /\ pre[p] = pre[q])
            => rec[p] = rec[q]

C8_Witness ==
    /\ status = "ok"
    /\ \E p, q, r \in Leaves :
          /\ Len(p) = 1 /\ Len(q) = 2 /\ Len(r) = 3
          /\ FieldAt(typ, p) = FieldAt(typ, q)
          /\ FieldAt(typ, p) = FieldAt(typ, r)
          /\ TagAt(typ, p).Selector # <<>>
          /\ rec[p] # pre[p]
          /\ rec[q] = rec[p] /\ rec[r] = rec[p]

\* the raw values of the matched nodes that pass the filter, in match order
RawKept(p) ==
    [k \in 1..Cardinality(KeptIdx(p)) |-> Candidates(p)[Nth(KeptIdx(p), k)]]

\* sequence fields with a filter whose selector matches at least one node
FilteredSlices == {p \in SliceHits : TagAt(typ, p).Filter # ""}

\* C9 as stated: every element of the written sequence, after extract and
\* trim, still matches the field's filter.
C9_ResultMatchesFilter ==
    status = "ok" =>
        \A p \in FilteredSlices :
            \A k \in 1..Len(rec[p]) :
                MatchString(TagAt(typ, p).Filter, rec[p][k])

\* C9 as amended: the written sequence has one element per matched node
\* whose raw value matches the filter, and an element still matches the
\* filter when no extract pattern is configured and trimming leaves its raw
\* value unchanged.
C9_UnchangedValuesMatchFilter ==
    status = "ok" =>
        \A p \in FilteredSlices :
            /\ Len(rec[p]) = Len(RawKept(p))
            /\ \A k \in 1..Len(rec[p]) :
                 (/\ TagAt(typ, p).Extract = ""
                  /\ TrimSpace(RawKept(p)[k]) = RawKept(p)[k])
                 => MatchString(TagAt(typ, p).Filter, rec[p][k])

C9_Witness ==
    /\ status = "ok"
    /\ \E p \in FilteredSlices :
          /\ TagAt(typ, p).Extract = ""
          /\ Len(rec[p]) >= 1
          /\ Len(rec[p]) < Len(Selection(p))
          /\ \A k \in 1..Len(rec[p]) :
                /\ TrimSpace(RawKept(p)[k]) = RawKept(p)[k]
                /\ MatchString(TagAt(typ, p).Filter, rec[p][k])

IsPrefix(s, t) == Len(s) <= Len(t) /\ SubSeq(t, 1, Len(s)) = s

\* the walk is past the field at p: the innermost activation on the stack
\* that walks a record containing p has moved beyond it
Processed(p) ==
    IF stack = <<>> THEN TRUE
    ELSE LET fs == {k \in 1..Len(stack) : IsPrefix(stack[k].path, p)}
             k == CHOOSE a \in fs : \A b \in fs : b <= a
         IN p[Len(stack[k].path) + 1] < stack[k].i

\* what scraping the field at p over the whole document yields
Outcome(p) ==
    CASE KindAt(p) = "string" -> scrape(doc, TagAt(typ, p))
      [] KindAt(p) = "slice"  -> scrapeSlice(doc, TagAt(typ, p))
      [] OTHER                -> Failed

\* C10: fields are processed in declaration order, depth first; a field
\* whose scrape fails keeps its pre-walk value, no earlier write is undone,
\* and every later field, in the same, a nested or an enclosing record, is
\* still populated.
C10_SkipAndContinue ==
    status \in {"running", "ok"} =>
        \A p \in Leaves :
            rec[p] = IF Processed(p) /\ ~Outcome(p).err
                     THEN Outcome(p).v ELSE pre[p]

C10_Witness ==
    /\ status = "ok"
    /\ \E p, q \in Leaves :
          /\ Len(p) = 3 /\ Len(q) = 1 /\ p[1] < q[1]
          /\ TagAt(typ, p).Selector # <<>>
          /\ Outcome(p).err /\ rec[p] = pre[p]
          /\ ~Outcome(q).err /\ rec[q] = Outcome(q).v /\ rec[q] # pre[q]

====
